---- MODULE Spec2Model ----
(***************************************************************************)
(* CLOCK-Pro cache (wilbeibi/clockpro).                                    *)
(*                                                                         *)
(* The engine (type clock: three circular lists with a hand, the lookup    *)
(* table pageMap and the adaptive capacities) is modelled from             *)
(* clockpro.go; the ring-based variant of the same engine in               *)
(* unnamed/part_000 has the same behaviour.  The facade (Get, Put,         *)
(* SetSize) is modelled from cache.go.  cache.go reaches the engine as     *)
(* c.state with the method names makeSpace, adaptHotCapacity,              *)
(* evictColdPage, evictHotPage and maintainMetaCapacity; they are the      *)
(* engine's makeSpace, adaptHot, evictCold, evictHot and trimMeta.         *)
(*                                                                         *)
(* A circular list is a sequence of page ids in Next() order that starts   *)
(* at the hand; <<>> is the empty list (hand = nil).  The mirrored size    *)
(* field is the length of the sequence.                                    *)
(***************************************************************************)
EXTENDS Integers, Sequences, FiniteSets, TLC

\* ------------------------------------------------------------------ bounds
\* Largest capacity passed to New, SetSize and resize.
MaxCap == 2

\* Arguments of New, SetSize and resize: non-positive ones are clamped.
Sizes == (-1)..MaxCap

\* Largest capacity of the runs that keep no call history.
WideCap == 3

WideSizes == 0..WideCap

\* Number of goroutines that call the cache concurrently.
NumThreads == 2

Threads == 1..NumThreads

\* Keys and capacities used by the concurrent callers.
LockKeys == {"a", "b"}

LockSizes == 1..MaxCap

Keys == {"a", "b", "c"}

Values == {"x", "y"}

\* The zero value of V (var zero V).
zero == "zero"

\* A nil *page.
Nil == 0

\* Page identities: at most capacity resident pages and metaCap ghosts.
PageIds == 1..(2 * (MaxCap + WideCap))

\* ------------------------------------------------------------ page states
stateCold == "stateCold"

stateHot == "stateHot"

stateColdResident == "stateColdResident"

VARIABLES
    hot,        \* clock.hot: sequence of page ids, hand first
    cold,       \* clock.cold
    meta,       \* clock.meta
    pageMap,    \* clock.pageMap: key -> page id, Nil when the key is absent
    pages,      \* the heap: page id -> [key, value, state, ref, test]
    capacity,   \* clock.capacity
    hotCap,     \* clock.hotCap
    coldCap,    \* clock.coldCap
    metaCap,    \* clock.metaCap
    last,       \* the last call: its name, arguments and result
    prior,      \* the Put calls made right before the last call (at most two,
                \* oldest first), kept while the calls form Put, Put, Get
    mu,         \* Cache.mu: the goroutines that hold the mutex
    pc,         \* where each goroutine is in its call
    call,       \* the call each goroutine is making
    metaLog,    \* the order in which the pages of meta were inserted (age[i]
                \* ranks meta[i], 1 is the oldest), and what the last call
                \* trimmed: the ranks removed and the ranks left
    written     \* the value of the latest Put of each key, "none" before it

vars == <<hot, cold, meta, pageMap, pages, capacity, hotCap, coldCap, metaCap,
          last, prior, mu, pc, call, metaLog, written>>

\* The histories that only the specifications about them record.
history == <<metaLog, written>>

engineVars == <<hot, cold, meta, pageMap, pages, capacity, hotCap, coldCap, metaCap>>

\* The engine as one value, so that the methods are operators on it.
Engine == [hot |-> hot, cold |-> cold, meta |-> meta, pageMap |-> pageMap,
           pages |-> pages, capacity |-> capacity, hotCap |-> hotCap,
           coldCap |-> coldCap, metaCap |-> metaCap]

\* ------------------------------------------------------------ circularList
\* circularList.insert: the page goes right after the hand; into an empty
\* list it becomes the hand.
insert(l, p) == IF l = <<>> THEN <<p>> ELSE <<l[1], p>> \o Tail(l)

\* circularList.remove: unlink p; when p was the hand, the hand moves to its
\* successor (wrapping to the front), and to nil when the list empties.
remove(l, p) == SelectSeq(l, LAMBDA q : q # p)

\* circularList.moveHand: the hand moves to its successor, wrapping around.
moveHand(l) == IF l = <<>> THEN l ELSE Tail(l) \o <<l[1]>>

\* circularList.head: the page under the hand, nil for an empty list.
head(l) == IF l = <<>> THEN Nil ELSE l[1]

\* A delete that leaves the table as it is.
mapDeleteNone(m, k) == m

\* delete(c.pageMap, key)
mapDelete(m, k) == [m EXCEPT ![k] = Nil]

\* ------------------------------------------------------------------ engine
\* newClock without the clamp of a non-positive capacity.
newClockNoClamp(n) ==
    LET cap == n
        h0  == cap \div 2
        h   == IF h0 = 0 THEN 1 ELSE h0
    IN  [hot |-> <<>>, cold |-> <<>>, meta |-> <<>>,
         pageMap |-> [k \in Keys |-> Nil],
         pages |-> <<>>,
         capacity |-> cap, hotCap |-> h, coldCap |-> cap - h, metaCap |-> cap]

\* newClock
newClock(n) ==
    LET cap == IF n <= 0 THEN 1 ELSE n
        h0  == cap \div 2
        h   == IF h0 = 0 THEN 1 ELSE h0
    IN  [hot |-> <<>>, cold |-> <<>>, meta |-> <<>>,
         pageMap |-> [k \in Keys |-> Nil],
         pages |-> <<>>,
         capacity |-> cap, hotCap |-> h, coldCap |-> cap - h, metaCap |-> cap]

\* adaptHot that moves hotCap and leaves coldCap alone.
adaptHotOneSided(c, increase) ==
    IF increase /\ c.hotCap < c.capacity - 1
    THEN [c EXCEPT !.hotCap = @ + 1]
    ELSE IF ~increase /\ c.hotCap > 1
         THEN [c EXCEPT !.hotCap = @ - 1]
         ELSE c

\* adaptHot without the floor 1 and the ceiling capacity - 1.
adaptHotUnbounded(c, increase) ==
    IF increase
    THEN [c EXCEPT !.hotCap = @ + 1, !.coldCap = @ - 1]
    ELSE [c EXCEPT !.hotCap = @ - 1, !.coldCap = @ + 1]

\* clock.adaptHot
adaptHot(c, increase) ==
    IF increase /\ c.hotCap < c.capacity - 1
    THEN [c EXCEPT !.hotCap = @ + 1, !.coldCap = @ - 1]
    ELSE IF ~increase /\ c.hotCap > 1
         THEN [c EXCEPT !.hotCap = @ - 1, !.coldCap = @ + 1]
         ELSE c

\* trimMeta that removes nothing.
trimMetaNone(c) == c

\* clock.trimMeta
RECURSIVE trimMeta(_)
trimMeta(c) ==
    IF Len(c.meta) > c.metaCap /\ head(c.meta) # Nil
    THEN LET victim == head(c.meta)
         IN  trimMeta([c EXCEPT !.meta = remove(@, victim),
                                !.pageMap = mapDelete(@, c.pages[victim].key)])
    ELSE c

\* The loop of clock.evictCold; the result carries the victim and the
\* number of hand steps taken.
RECURSIVE evictColdLoop(_, _, _)
evictColdLoop(c, steps, maxSteps) ==
    IF ~(Len(c.cold) > 0 /\ steps < maxSteps)
    THEN [c |-> c, victim |-> Nil, steps |-> steps]
    ELSE LET victim == head(c.cold)
             c1 == [c EXCEPT !.cold = moveHand(@)]
         IN  IF c.pages[victim].ref
             THEN evictColdLoop(
                      [c1 EXCEPT !.pages[victim].ref = FALSE,
                                 !.pages[victim].state = stateHot,
                                 !.cold = remove(@, victim),
                                 !.hot = insert(@, victim)],
                      steps + 1, maxSteps)
             ELSE LET c2 == [c1 EXCEPT !.cold = remove(@, victim),
                                       !.pageMap = mapDelete(@, c.pages[victim].key)]
                  IN  IF c.pages[victim].test
                      THEN [c |-> trimMeta([c2 EXCEPT !.pages[victim].value = zero,
                                                      !.pages[victim].state = stateCold,
                                                      !.pages[victim].test = FALSE,
                                                      !.meta = insert(@, victim)]),
                            victim |-> victim, steps |-> steps + 1]
                      ELSE [c |-> c2, victim |-> victim, steps |-> steps + 1]

\* evictCold that leaves the value in the page it evicts.
evictColdKeepValue(c) ==
    LET r == evictColdLoop(c, 0, Len(c.cold) * 2)
    IN  IF r.victim # Nil
        THEN [r EXCEPT !.c.pages[r.victim].value = c.pages[r.victim].value]
        ELSE r

\* evictCold with half a lap of steps instead of two laps.
evictColdHalfLap(c) == evictColdLoop(c, 0, Len(c.cold) \div 2)

\* clock.evictCold
evictCold(c) == evictColdLoop(c, 0, Len(c.cold) * 2)

\* The loop of clock.evictHot.
RECURSIVE evictHotLoop(_, _, _)
evictHotLoop(c, steps, maxSteps) ==
    IF ~(Len(c.hot) > 0 /\ steps < maxSteps)
    THEN [c |-> c, victim |-> Nil, steps |-> steps]
    ELSE LET victim == head(c.hot)
             c1 == [c EXCEPT !.hot = moveHand(@)]
         IN  IF c.pages[victim].ref
             THEN evictHotLoop([c1 EXCEPT !.pages[victim].ref = FALSE],
                               steps + 1, maxSteps)
             ELSE LET c2 == [c1 EXCEPT !.hot = remove(@, victim)]
                  IN  IF Len(c2.cold) < c2.coldCap
                      THEN [c |-> adaptHot(
                                    [c2 EXCEPT !.pages[victim].state = stateColdResident,
                                               !.pages[victim].test = TRUE,
                                               !.pages[victim].ref = FALSE,
                                               !.cold = insert(@, victim)],
                                    TRUE),
                            victim |-> victim, steps |-> steps + 1]
                      ELSE [c |-> [c2 EXCEPT !.pageMap = mapDelete(@, c.pages[victim].key)],
                            victim |-> victim, steps |-> steps + 1]

\* The loop of an evictHot that leaves the ref flag of a referenced page set.
RECURSIVE evictHotStickyLoop(_, _, _)
evictHotStickyLoop(c, steps, maxSteps) ==
    IF ~(Len(c.hot) > 0 /\ steps < maxSteps)
    THEN [c |-> c, victim |-> Nil, steps |-> steps]
    ELSE IF c.pages[head(c.hot)].ref
         THEN evictHotStickyLoop([c EXCEPT !.hot = moveHand(@)], steps + 1, maxSteps)
         ELSE evictHotLoop(c, steps, maxSteps)

\* evictHot that gives a referenced page a chance on every lap: the ref flag
\* stays set and the scan is bounded by three laps.
evictHotStickyRef(c) == evictHotStickyLoop(c, 0, Len(c.hot) * 3)

\* evictHot whose demotion leaves the split alone.
evictHotNoGrow(c) ==
    LET r == evictHotLoop(c, 0, Len(c.hot) * 2)
    IN  [r EXCEPT !.c.hotCap = c.hotCap, !.c.coldCap = c.coldCap]

\* evictHot that scans one lap only.
evictHotOneLap(c) == evictHotLoop(c, 0, Len(c.hot))

\* clock.evictHot
evictHot(c) == evictHotLoop(c, 0, Len(c.hot) * 2)

\* clock.makeSpace.  Each round of the loop works on the engine the round
\* before left: c is that engine as a value (the only element of {c0}).
RECURSIVE makeSpace(_)
makeSpace(c0) ==
    CHOOSE after \in {
        (IF Len(c.hot) + Len(c.cold) >= c.capacity
         THEN IF Len(c.cold) > 0
              THEN LET r == evictCold(c)
                   IN  IF r.victim = Nil THEN r.c ELSE makeSpace(r.c)
              ELSE IF Len(c.hot) > 0
                   THEN LET r == evictHot(c)
                        IN  IF r.victim = Nil THEN r.c ELSE makeSpace(r.c)
                   ELSE c
         ELSE c) : c \in {c0}} : TRUE

\* touch that marks a cold resident page referenced and leaves it in cold.
touchRefOnly(c, p) ==
    CASE c.pages[p].state = stateHot ->
            [c EXCEPT !.pages[p].ref = TRUE]
      [] c.pages[p].state = stateColdResident ->
            [c EXCEPT !.pages[p].ref = TRUE]
      [] c.pages[p].state = stateCold ->
            LET c1 == IF c.pages[p].test THEN adaptHot(c, TRUE) ELSE c
                c2 == makeSpace([c1 EXCEPT !.meta = remove(@, p)])
            IN  [c2 EXCEPT !.pages[p].state = stateHot,
                           !.pages[p].test = FALSE,
                           !.pages[p].ref = TRUE,
                           !.hot = insert(@, p)]

\* touch whose promotion leaves the split alone when hot outgrows hotCap.
touchNoAdapt(c, p) ==
    CASE c.pages[p].state = stateHot ->
            [c EXCEPT !.pages[p].ref = TRUE]
      [] c.pages[p].state = stateColdResident ->
            IF c.pages[p].test
            THEN [c EXCEPT !.pages[p].state = stateHot,
                           !.pages[p].test = FALSE,
                           !.pages[p].ref = TRUE,
                           !.cold = remove(@, p),
                           !.hot = insert(@, p)]
            ELSE [c EXCEPT !.pages[p].ref = TRUE]
      [] c.pages[p].state = stateCold ->
            LET c1 == IF c.pages[p].test THEN adaptHot(c, TRUE) ELSE c
                c2 == makeSpace([c1 EXCEPT !.meta = remove(@, p)])
            IN  [c2 EXCEPT !.pages[p].state = stateHot,
                           !.pages[p].test = FALSE,
                           !.pages[p].ref = TRUE,
                           !.hot = insert(@, p)]

\* clock.touch
touch(c, p) ==
    CASE c.pages[p].state = stateHot ->
            [c EXCEPT !.pages[p].ref = TRUE]
      [] c.pages[p].state = stateColdResident ->
            IF c.pages[p].test
            THEN LET c1 == [c EXCEPT !.pages[p].state = stateHot,
                                     !.pages[p].test = FALSE,
                                     !.pages[p].ref = TRUE,
                                     !.cold = remove(@, p),
                                     !.hot = insert(@, p)]
                 IN  IF Len(c1.hot) > c1.hotCap THEN adaptHot(c1, FALSE) ELSE c1
            ELSE [c EXCEPT !.pages[p].ref = TRUE]
      [] c.pages[p].state = stateCold ->
            LET c1 == IF c.pages[p].test THEN adaptHot(c, TRUE) ELSE c
                c2 == makeSpace([c1 EXCEPT !.meta = remove(@, p)])
            IN  [c2 EXCEPT !.pages[p].state = stateHot,
                           !.pages[p].test = FALSE,
                           !.pages[p].ref = TRUE,
                           !.hot = insert(@, p)]

\* The eviction loop of clock.resize.
RECURSIVE resizeLoop(_, _)
resizeLoop(c, size) ==
    IF Len(c.hot) + Len(c.cold) > size
    THEN LET rc == IF Len(c.cold) > 0 THEN evictCold(c)
                   ELSE [c |-> c, victim |-> Nil, steps |-> 0]
             rh == IF rc.victim = Nil /\ Len(rc.c.hot) > 0 THEN evictHot(rc.c)
                   ELSE rc
         IN  IF rh.victim = Nil THEN rh.c ELSE resizeLoop(rh.c, size)
    ELSE c

\* resize that sizes the ghost list by the cold share of the capacity.
resizeMetaCold(c, n) ==
    LET size   == IF n <= 0 THEN 1 ELSE n
        oldCap == c.capacity
        ratio  == (c.hotCap * 1000) \div oldCap
        h0     == (size * ratio) \div 1000
        h1     == IF h0 = 0 THEN 1 ELSE h0
        newHotCap == IF h1 >= size THEN size - 1 ELSE h1
    IN  trimMeta(resizeLoop([c EXCEPT !.capacity = size,
                                      !.hotCap = newHotCap,
                                      !.coldCap = size - newHotCap,
                                      !.metaCap = size - newHotCap],
                            size))

\* clock.resize
resize(c, n) ==
    LET size   == IF n <= 0 THEN 1 ELSE n
        oldCap == c.capacity
        ratio  == (c.hotCap * 1000) \div oldCap
        h0     == (size * ratio) \div 1000
        h1     == IF h0 = 0 THEN 1 ELSE h0
        newHotCap == IF h1 >= size THEN size - 1 ELSE h1
    IN  trimMeta(resizeLoop([c EXCEPT !.capacity = size,
                                      !.hotCap = newHotCap,
                                      !.coldCap = size - newHotCap,
                                      !.metaCap = size],
                            size))

\* Pages that no list and no table entry refers to are garbage.
Range(f) == {f[x] : x \in DOMAIN f}

Live(c) == Range(c.hot) \cup Range(c.cold) \cup Range(c.meta)
           \cup (Range(c.pageMap) \ {Nil})

Collect(c) == [c EXCEPT !.pages = [id \in Live(c) |-> c.pages[id]]]

\* ------------------------------------------------------------------ facade
\* Get that reports the hit that promotes a cold page as a miss.
GetOpPromoteMiss(c, key) ==
    LET p == c.pageMap[key]
    IN  IF p = Nil
        THEN [c |-> c, value |-> zero, found |-> FALSE]
        ELSE IF c.pages[p].state = stateCold
                \/ (c.pages[p].state = stateColdResident /\ c.pages[p].test)
             THEN [c |-> touch(c, p), value |-> zero, found |-> FALSE]
             ELSE [c |-> touch(c, p), value |-> c.pages[p].value, found |-> TRUE]

\* Cache.Get: the engine after the call and the pair returned.
GetOp(c, key) ==
    LET p == c.pageMap[key]
    IN  IF p = Nil
        THEN [c |-> c, value |-> zero, found |-> FALSE]
        ELSE IF c.pages[p].state = stateCold
             THEN [c |-> touch(c, p), value |-> zero, found |-> FALSE]
             ELSE [c |-> touch(c, p), value |-> c.pages[p].value, found |-> TRUE]

\* The identity of the page allocated by &page{...}: any unused one.
newPage(c) == CHOOSE id \in PageIds \ Live(c) :
                 \A other \in PageIds \ Live(c) : id <= other

\* Put of a new key that does not make space first.
PutOpNoSpace(c, key, value) ==
    LET p == c.pageMap[key]
    IN  IF p # Nil
        THEN touch([c EXCEPT !.pages[p].value = value], p)
        ELSE LET id == newPage(c)
                 pg == [key |-> key, value |-> value, state |-> stateColdResident,
                        ref |-> FALSE, test |-> TRUE]
             IN  [c EXCEPT !.pages = (id :> pg) @@ @,
                           !.pageMap[key] = id,
                           !.cold = insert(@, id)]

\* Put of an existing key that touches the page and keeps its old value.
PutOpNoOverwrite(c, key, value) ==
    LET p == c.pageMap[key]
    IN  IF p # Nil
        THEN touch(c, p)
        ELSE LET c1 == makeSpace(c)
                 id == newPage(c1)
                 pg == [key |-> key, value |-> value, state |-> stateColdResident,
                        ref |-> FALSE, test |-> TRUE]
             IN  [c1 EXCEPT !.pages = (id :> pg) @@ @,
                            !.pageMap[key] = id,
                            !.cold = insert(@, id)]

\* makeSpace that evicts from hot first and from cold when hot is empty.
RECURSIVE makeSpaceHotFirst(_)
makeSpaceHotFirst(c0) ==
    CHOOSE after \in {
        (IF Len(c.hot) + Len(c.cold) >= c.capacity
         THEN IF Len(c.hot) > 0
              THEN LET r == evictHot([c EXCEPT !.coldCap = 0])
                   IN  IF r.victim = Nil THEN c
                       ELSE makeSpaceHotFirst([r.c EXCEPT !.coldCap = c.coldCap])
              ELSE IF Len(c.cold) > 0
                   THEN LET r == evictCold(c)
                        IN  IF r.victim = Nil THEN r.c ELSE makeSpaceHotFirst(r.c)
                   ELSE c
         ELSE c) : c \in {c0}} : TRUE

\* Put of a new key that makes space in the hot ring first.
PutOpHotFirst(c, key, value) ==
    LET p == c.pageMap[key]
    IN  IF p # Nil
        THEN touch([c EXCEPT !.pages[p].value = value], p)
        ELSE LET c1 == makeSpaceHotFirst(c)
                 id == newPage(c1)
                 pg == [key |-> key, value |-> value, state |-> stateColdResident,
                        ref |-> FALSE, test |-> TRUE]
             IN  [c1 EXCEPT !.pages = (id :> pg) @@ @,
                            !.pageMap[key] = id,
                            !.cold = insert(@, id)]

\* Put that admits a new page with its test flag clear.
PutOpNoTest(c, key, value) ==
    LET p == c.pageMap[key]
    IN  IF p # Nil
        THEN touch([c EXCEPT !.pages[p].value = value], p)
        ELSE LET c1 == makeSpace(c)
                 id == newPage(c1)
                 pg == [key |-> key, value |-> value, state |-> stateColdResident,
                        ref |-> FALSE, test |-> FALSE]
             IN  [c1 EXCEPT !.pages = (id :> pg) @@ @,
                            !.pageMap[key] = id,
                            !.cold = insert(@, id)]

\* Cache.Put
PutOp(c, key, value) ==
    LET p == c.pageMap[key]
    IN  IF p # Nil
        THEN touch([c EXCEPT !.pages[p].value = value], p)
        ELSE LET c1 == makeSpace(c)
                 id == newPage(c1)
                 pg == [key |-> key, value |-> value, state |-> stateColdResident,
                        ref |-> FALSE, test |-> TRUE]
             IN  [c1 EXCEPT !.pages = (id :> pg) @@ @,
                            !.pageMap[key] = id,
                            !.cold = insert(@, id)]

\* The loop of Cache.SetSize: cold pages first, hot pages when none is left.
\* Each round works on the engine the round before left: c is that engine as
\* a value (the only element of {c0}).
RECURSIVE setSizeLoop(_, _)
setSizeLoop(c0, size) ==
    CHOOSE after \in {
        (IF Len(c.hot) + Len(c.cold) > size
         THEN IF Len(c.cold) > 0
              THEN setSizeLoop(evictCold(c).c, size)
              ELSE setSizeLoop(evictHot(c).c, size)
         ELSE c) : c \in {c0}} : TRUE

\* SetSize whose eviction loop runs down to the old capacity.
SetSizeOpOldCap(c, n) ==
    LET size   == IF n <= 0 THEN 1 ELSE n
        oldCapacity == c.capacity
        h0     == (size * c.hotCap) \div oldCapacity
        h1     == IF h0 = 0 THEN 1 ELSE h0
        newHotCapacity == IF h1 >= size THEN size - 1 ELSE h1
    IN  trimMeta(setSizeLoop([c EXCEPT !.capacity = size,
                                       !.hotCap = newHotCapacity,
                                       !.coldCap = size - newHotCapacity,
                                       !.metaCap = size],
                             oldCapacity))

\* Cache.SetSize.  The ratio is a float64; for the capacities of this model
\* int(float64(size) * ratio) is the exact quotient size * hotCap / oldCap.
SetSizeOp(c, n) ==
    LET size   == IF n <= 0 THEN 1 ELSE n
        oldCapacity == c.capacity
        h0     == (size * c.hotCap) \div oldCapacity
        h1     == IF h0 = 0 THEN 1 ELSE h0
        newHotCapacity == IF h1 >= size THEN size - 1 ELSE h1
    IN  trimMeta(setSizeLoop([c EXCEPT !.capacity = size,
                                       !.hotCap = newHotCapacity,
                                       !.coldCap = size - newHotCapacity,
                                       !.metaCap = size],
                             size))

\* Page identities are addresses; a state is stored with its pages numbered
\* in the order hot, cold, meta (then any page only the table refers to).
RECURSIVE SetToSeq(_)
SetToSeq(S) == IF S = {} THEN <<>>
               ELSE LET m == CHOOSE x \in S : \A y \in S : x <= y
                    IN  <<m>> \o SetToSeq(S \ {m})

Canon(c) ==
    LET inLists == c.hot \o c.cold \o c.meta
        order == inLists \o SetToSeq(Live(c) \ Range(inLists))
        pos == [id \in Range(order) |-> CHOOSE i \in 1..Len(order) : order[i] = id]
        ren(l) == [i \in 1..Len(l) |-> pos[l[i]]]
    IN  IF \A i \in 1..Len(order) : order[i] = i
        THEN Collect(c)
        ELSE
        [c EXCEPT !.hot = ren(c.hot),
                  !.cold = ren(c.cold),
                  !.meta = ren(c.meta),
                  !.pageMap = [k \in Keys |-> IF c.pageMap[k] = Nil THEN Nil
                                              ELSE pos[c.pageMap[k]]],
                  !.pages = [i \in 1..Len(order) |-> c.pages[order[i]]]]

\* ----------------------------------------------------------------- actions
\* The calls below are made by a single caller: the mutex is free before and
\* after each of them.
Install(c) ==
    \E d \in {Canon(c)} :
        /\ hot' = d.hot
        /\ cold' = d.cold
        /\ meta' = d.meta
        /\ pageMap' = d.pageMap
        /\ pages' = d.pages
        /\ capacity' = d.capacity
        /\ hotCap' = d.hotCap
        /\ coldCap' = d.coldCap
        /\ metaCap' = d.metaCap

Get(key) ==
    \E r \in {GetOp(Engine, key)} :
        /\ Install(r.c)
        /\ last' = [op |-> "Get", key |-> key, value |-> r.value, found |-> r.found]
        /\ UNCHANGED <<mu, pc, call>>

Put(key, value) ==
    /\ Install(PutOp(Engine, key, value))
    /\ last' = [op |-> "Put", key |-> key, value |-> value]
    /\ UNCHANGED <<mu, pc, call>>

SetSize(n) ==
    /\ Install(SetSizeOp(Engine, n))
    /\ last' = [op |-> "SetSize", size |-> n, before |-> Len(hot) + Len(cold)]
    /\ UNCHANGED <<mu, pc, call>>

\* Resize through the engine's own resize.
Resize(n) ==
    /\ Install(resize(Engine, n))
    /\ last' = [op |-> "Resize", size |-> n, before |-> Len(hot) + Len(cold)]
    /\ UNCHANGED <<mu, pc, call>>

\* No call in progress.
NoCall == [op |-> "none"]

\* ------------------------------------------------------------ call history
\* prior keeps the Put calls that came right before the last call, as long as
\* the recent calls have the shape Put, Put, Get or a suffix of it.
Observe ==
    /\ prior' = IF last.op = "Put" /\ last'.op = "Put" THEN <<last>>
                ELSE IF last.op = "Put" /\ last'.op = "Get" THEN Append(prior, last)
                ELSE <<>>
    /\ UNCHANGED history

\* No history but the last call is kept.
Forget ==
    /\ prior' = <<>>
    /\ UNCHANGED history

\* New(n), n drawn from sizes.
InitCache(sizes) ==
    \E n \in sizes :
        \E c \in {newClock(n)} :
            /\ hot = c.hot
            /\ cold = c.cold
            /\ meta = c.meta
            /\ pageMap = c.pageMap
            /\ pages = c.pages
            /\ capacity = c.capacity
            /\ hotCap = c.hotCap
            /\ coldCap = c.coldCap
            /\ metaCap = c.metaCap
            /\ last = [op |-> "New", size |-> n]
            /\ prior = <<>>
            /\ mu = {}
            /\ pc = [t \in Threads |-> "idle"]
            /\ call = [t \in Threads |-> NoCall]
            /\ metaLog = [age |-> <<>>, removed |-> {}, kept |-> {}]
            /\ written = [k \in Keys |-> "none"]

\* Any sequence of calls with capacities up to MaxCap, two values, and the
\* call history kept.
Init == InitCache(Sizes)

Next ==
    \/ \E key \in Keys : Get(key) /\ Observe
    \/ \E key \in Keys, value \in Values : Put(key, value) /\ Observe
    \/ \E n \in Sizes : SetSize(n) /\ Observe
    \/ \E n \in Sizes : Resize(n) /\ Observe

Spec == Init /\ [][Next]_vars

\* Any sequence of Put and Get calls on a cache that is never resized.
NextPutGet ==
    \/ \E key \in Keys : Get(key) /\ Observe
    \/ \E key \in Keys, value \in Values : Put(key, value) /\ Observe

SpecPutGet == Init /\ [][NextPutGet]_vars

\* Any sequence of calls with capacities up to WideCap, one value, and only
\* the last call kept.
InitWide == InitCache(WideSizes)

NextWide ==
    \/ \E key \in Keys : Get(key) /\ Forget
    \/ \E key \in Keys : Put(key, "x") /\ Forget
    \/ \E n \in WideSizes : SetSize(n) /\ Forget
    \/ \E n \in WideSizes : Resize(n) /\ Forget

SpecWide == InitWide /\ [][NextWide]_vars

\* The insertion order of meta after a call that took engine c to engine r
\* (r before its pages are renumbered, so a page has the same id in c and r):
\* a page that was in meta keeps its rank, a page new in meta is the
\* youngest, a page that left meta was trimmed.  kept holds the ranks of the
\* pages left as they were when the trim ran; age ranks them again from 1.
LogMeta(c, r) ==
    LET stamp(id) == IF id \in Range(c.meta)
                     THEN metaLog.age[CHOOSE i \in 1..Len(c.meta) : c.meta[i] = id]
                     ELSE Len(c.meta) + 1
        left == {stamp(id) : id \in Range(r.meta)}
    IN  metaLog' = [age |-> [i \in 1..Len(r.meta) |->
                               Cardinality({x \in left : x <= stamp(r.meta[i])})],
                    removed |-> {stamp(id) : id \in Range(c.meta) \ Range(r.meta)},
                    kept |-> left]

\* Put and Get calls on a cache of any capacity up to WideCap, with the
\* insertion order of meta recorded.
InitMeta == InitCache(1..WideCap)

NextMeta ==
    \/ \E key \in Keys :
          /\ Get(key)
          /\ LogMeta(Engine, GetOp(Engine, key).c)
          /\ prior' = <<>>
          /\ UNCHANGED written
    \/ \E key \in Keys :
          /\ Put(key, "x")
          /\ LogMeta(Engine, PutOp(Engine, key, "x"))
          /\ prior' = <<>>
          /\ UNCHANGED written

SpecMeta == InitMeta /\ [][NextMeta]_vars

\* Any sequence of calls with capacities up to MaxCap, with the latest value
\* put under each key recorded.
NextValues ==
    \/ \E key \in Keys :
          /\ Get(key)
          /\ prior' = <<>>
          /\ UNCHANGED history
    \/ \E key \in Keys, value \in Values :
          /\ Put(key, value)
          /\ written' = [written EXCEPT ![key] = value]
          /\ prior' = <<>>
          /\ UNCHANGED metaLog
    \/ \E n \in Sizes : SetSize(n) /\ Forget
    \/ \E n \in Sizes : Resize(n) /\ Forget

SpecValues == Init /\ [][NextValues]_vars

\* -------------------------------------------------------- concurrent callers
\* The calls the goroutines make.
Calls == [op : {"Get"}, key : LockKeys]
         \cup [op : {"Put"}, key : LockKeys, value : {"x"}]
         \cup [op : {"SetSize"}, size : LockSizes]

\* The facade where Get takes the read lock of the RWMutex.
lockModeGetShared(op) == IF op = "Get" THEN "RLock" ELSE "Lock"

\* How a call takes Cache.mu: Get, Put and SetSize all call c.mu.Lock().
lockMode(op) == "Lock"

\* The facade where the miss of Get returns without unlocking.
exitPathNoDefer(op, found) == IF op = "Get" /\ ~found THEN "idle" ELSE "unlock"

\* What runs when the body of a call returns: defer c.mu.Unlock() runs on
\* every return, the early return of a miss included.
exitPath(op, found) == "unlock"

\* The body of a call: the engine after it, the record of the call and
\* whether it found the key.
CallOp(c, cl) ==
    CASE cl.op = "Get" ->
            LET r == GetOp(c, cl.key)
            IN  [c |-> r.c, found |-> r.found,
                 last |-> [op |-> "Get", key |-> cl.key, value |-> r.value,
                           found |-> r.found]]
      [] cl.op = "Put" ->
            [c |-> PutOp(c, cl.key, cl.value), found |-> TRUE,
             last |-> [op |-> "Put", key |-> cl.key, value |-> cl.value]]
      [] cl.op = "SetSize" ->
            [c |-> SetSizeOp(c, cl.size), found |-> TRUE,
             last |-> [op |-> "SetSize", size |-> cl.size,
                       before |-> Len(c.hot) + Len(c.cold)]]

\* A goroutine calls Get, Put or SetSize.
Call(t, cl) ==
    /\ pc[t] = "idle"
    /\ pc' = [pc EXCEPT ![t] = "waiting"]
    /\ call' = [call EXCEPT ![t] = cl]
    /\ UNCHANGED <<engineVars, last, prior, mu, history>>

\* c.mu.Lock() / c.mu.RLock() of sync.RWMutex: Lock returns when no goroutine
\* holds the mutex, RLock when no goroutine holds it for writing.
Lock(t) ==
    /\ pc[t] = "waiting"
    /\ IF lockMode(call[t].op) = "Lock"
       THEN mu = {}
       ELSE \A h \in mu : lockMode(call[h].op) = "RLock"
    /\ mu' = mu \cup {t}
    /\ pc' = [pc EXCEPT ![t] = "locked"]
    /\ UNCHANGED <<engineVars, last, prior, call, history>>

\* The body of the call, up to its return statement.
Run(t) ==
    /\ pc[t] = "locked"
    /\ \E r \in {CallOp(Engine, call[t])} :
          /\ Install(r.c)
          /\ last' = r.last
          /\ pc' = [pc EXCEPT ![t] = exitPath(call[t].op, r.found)]
    /\ Forget
    /\ UNCHANGED <<mu, call>>

\* The deferred c.mu.Unlock().
Unlock(t) ==
    /\ pc[t] = "unlock"
    /\ mu' = mu \ {t}
    /\ pc' = [pc EXCEPT ![t] = "idle"]
    /\ call' = [call EXCEPT ![t] = NoCall]
    /\ UNCHANGED <<engineVars, last, prior, history>>

InitLock == InitCache(LockSizes)

NextLock ==
    \/ \E t \in Threads, cl \in Calls : Call(t, cl)
    \/ \E t \in Threads : Lock(t)
    \/ \E t \in Threads : Run(t)
    \/ \E t \in Threads : Unlock(t)

\* Goroutines that call the cache concurrently.
SpecLock == InitLock /\ [][NextLock]_vars

\* The calls of the runs that are checked under fairness: hits and misses,
\* Puts that have to make space, and a shrink.
FairCalls == {cl \in Calls : cl.op = "SetSize" => cl.size = 1}

NextFair ==
    \/ \E t \in Threads, cl \in FairCalls : Call(t, cl)
    \/ \E t \in Threads : Lock(t)
    \/ \E t \in Threads : Run(t)
    \/ \E t \in Threads : Unlock(t)

\* A goroutine that can run does run, and sync.Mutex hands the lock to a
\* goroutine that keeps waiting for it (starvation mode).
SpecLockFair ==
    /\ InitLock
    /\ [][NextFair]_vars
    /\ \A t \in Threads : /\ SF_vars(Lock(t))
                          /\ WF_vars(Run(t))
                          /\ WF_vars(Unlock(t))

\* ------------------------------------------------------------------ claims
Residents == Len(hot) + Len(cold)

Resized == last.op \in {"SetSize", "Resize"}

Max(x, y) == IF x >= y THEN x ELSE y

\* C1: residency bound: after New and after every Get, Put, SetSize, Resize, in
\* any sequence of calls, hot.size + cold.size <= capacity.
ResidencyBound == Len(hot) + Len(cold) <= capacity

\* C1 witness: a Put that had to evict has filled a cache of capacity 2 with
\* a hot and a cold page.
ResidencyBoundWitness ==
    /\ last.op = "Put"
    /\ capacity = 2
    /\ Len(hot) = 1
    /\ Len(cold) = 1
    /\ meta # <<>>

\* C2: the split is conserved: after every call hotCap + coldCap = capacity.
SplitConserved == hotCap + coldCap = capacity

\* C2 witness: after a Get or a Put, a cache of capacity 3 whose split is not
\* the one New or a resize to 3 from capacity 2 or 3 sets, with hot full.
SplitConservedWitness ==
    /\ last.op \in {"Get", "Put"}
    /\ capacity = 3
    /\ hotCap = 2
    /\ coldCap = 1
    /\ Len(hot) = 2
    /\ Len(cold) = 1

\* C3: bounds of the split: whenever capacity > 1, 1 <= hotCap <= capacity - 1.
SplitBounds == capacity > 1 => (1 <= hotCap /\ hotCap <= capacity - 1)

\* C3 witness: a resize from capacity 1 scaled hotCap to the new capacity and
\* clamped it to capacity - 1.
SplitBoundsWitness ==
    /\ Resized
    /\ capacity = 3
    /\ hotCap = 2

\* C4: table/ring consistency: after every call the number of keys in the
\* lookup table is hot.size + cold.size + meta.size.
TableRingConsistency ==
    Cardinality({k \in Keys : pageMap[k] # Nil}) = Len(hot) + Len(cold) + Len(meta)

\* C5: round trip: Put(k, v) followed immediately by Get(k) returns (v, true),
\* whether k was new, resident or evicted before.
RoundTrip ==
    (last.op = "Get" /\ prior # <<>> /\ prior[Len(prior)].key = last.key)
        => (last.found /\ last.value = prior[Len(prior)].value)

\* C5 witness: Get(k) right after Put(k, "y") returned ("y", true) for a key
\* that was evicted before (a ghost page of k is still in meta).
RoundTripWitness ==
    /\ last.op = "Get"
    /\ prior # <<>>
    /\ prior[Len(prior)].key = last.key
    /\ last.found
    /\ last.value = "y"
    /\ \E i \in 1..Len(meta) : pages[meta[i]].key = last.key

\* C6: overwrite: Put(k, v1); Put(k, v2); Get(k) returns (v2, true), and the
\* second Put stores v2 in the existing entry and creates no entry.
Overwrite ==
    [][ /\ (last.op = "Put" /\ last'.op = "Put" /\ last'.key = last.key)
            => /\ Len(hot') + Len(cold') + Len(meta') = Len(hot) + Len(cold) + Len(meta)
               /\ pageMap'[last'.key] # Nil
               /\ pages'[pageMap'[last'.key]].value = last'.value
        /\ (last'.op = "Get" /\ Len(prior') = 2
              /\ prior'[1].key = last'.key /\ prior'[2].key = last'.key)
            => (last'.found /\ last'.value = prior'[2].value) ]_vars

\* C6 witness: Put(k, "x"); Put(k, "y"); Get(k) has returned ("y", true).
OverwriteWitness ==
    /\ last.op = "Get"
    /\ Len(prior) = 2
    /\ prior[1].key = last.key
    /\ prior[2].key = last.key
    /\ prior[1].value = "x"
    /\ prior[2].value = "y"
    /\ last.found
    /\ last.value = "y"

\* C7: eviction under pressure: with capacity 1 and keys a # b, after
\* Put(a, x); Put(b, y) at most one entry is resident, Get(a) reports a miss
\* and Get(b) reports (y, true), also when Get(b) follows the miss of Get(a).
EvictionUnderPressure ==
    /\ (capacity = 1 /\ last.op = "Put" /\ Len(prior) = 1 /\ prior[1].key # last.key)
        => /\ Residents <= 1
           /\ ~GetOp(Engine, prior[1].key).found
    /\ (capacity = 1 /\ last.op = "Get" /\ Len(prior) = 2 /\ prior[1].key # prior[2].key)
        => /\ Residents <= 1
           /\ last.key = prior[1].key => ~last.found
           /\ last.key = prior[2].key => (last.found /\ last.value = prior[2].value)
           /\ LET r == GetOp(Engine, prior[2].key)
              IN  r.found /\ r.value = prior[2].value

\* C7 witness: with capacity 1, Put(a, .); Put(b, .); Get(a) has missed.
EvictionUnderPressureWitness ==
    /\ capacity = 1
    /\ last.op = "Get"
    /\ Len(prior) = 2
    /\ prior[1].key # prior[2].key
    /\ last.key = prior[1].key
    /\ ~last.found
    /\ Residents = 1

\* C8: default clamp: New(n) with n <= 0 builds the state of New(1),
\* SetSize(n) and resize(n) with n <= 0 set capacity to 1, and capacity >= 1
\* in every state.
DefaultClamp ==
    /\ capacity >= 1
    /\ (last.op = "New" /\ last.size <= 0) => Engine = newClock(1)
    /\ (Resized /\ last.size <= 0) => capacity = 1

\* C8 witness: SetSize(-1) on a cache with two resident pages has left
\* capacity 1.
DefaultClampWitness ==
    /\ last.op = "SetSize"
    /\ last.size = -1
    /\ last.before = 2
    /\ capacity = 1

\* C9: growth preserves data: SetSize(n) or resize(n) with n >= capacity
\* leaves hot, cold, meta, the pages and the lookup table as they were, so
\* every Get that hit before the call hits with the same value after it.
GrowthPreserves ==
    [][ (last'.op \in {"SetSize", "Resize"} /\ last'.size >= capacity)
            => /\ hot' = hot
               /\ cold' = cold
               /\ meta' = meta
               /\ pages' = pages
               /\ pageMap' = pageMap
               /\ \A k \in Keys :
                     GetOp(Engine, k).found
                         => /\ GetOp(Engine, k).found'
                            /\ GetOp(Engine, k).value' = GetOp(Engine, k).value ]_vars

\* C9 witness: a resize to the largest capacity of a cache that holds hot,
\* cold and ghost pages.
GrowthPreservesWitness ==
    /\ Resized
    /\ last.size = MaxCap
    /\ capacity = MaxCap
    /\ hot # <<>>
    /\ cold # <<>>
    /\ meta # <<>>

\* C10: shrink stays consistent: right after SetSize(n) or resize(n) with n
\* below the resident count, hot.size + cold.size <= max(n, 1).
ShrinkConsistent ==
    (Resized /\ last.size < last.before) => Residents <= Max(last.size, 1)

\* C10 witness: a resize of three resident pages down to capacity 1 has left
\* one resident page.
ShrinkConsistentWitness ==
    /\ Resized
    /\ last.before = 3
    /\ last.size = 1
    /\ Residents = 1

\* The engine with the ref flag set on exactly the pages of S.
WithRefs(c, S) ==
    [c EXCEPT !.pages = [id \in DOMAIN c.pages |->
                            [c.pages[id] EXCEPT !.ref = (id \in S)]]]

\* C11: bounded scan: a call of evictCold or evictHot ends after at most
\* 2 x (the ring's size at entry) hand steps, whatever ref flags the resident
\* pages carry at entry, all of them set included.
BoundedScan ==
    \A S \in SUBSET (Range(hot) \cup Range(cold)) :
        LET c == WithRefs(Engine, S)
        IN  /\ evictCold(c).steps <= 2 * Len(c.cold)
            /\ evictHot(c).steps <= 2 * Len(c.hot)

\* C11 witness: three hot pages, all referenced, fill the cache; the scan of
\* evictHot clears the three flags on the first lap and evicts on its fourth
\* step.
BoundedScanWitness ==
    /\ Len(hot) = 3
    /\ cold = <<>>
    /\ capacity = 3
    /\ \A i \in 1..Len(hot) : pages[hot[i]].ref
    /\ evictHot(Engine).steps = 4
    /\ evictHot(Engine).victim # Nil

\* The goroutines inside the engine: between Lock and Unlock.
Inside == {t \in Threads : pc[t] \in {"locked", "unlock"}}

\* The engine moves by one whole call.
EngineStep == \E cl \in Calls : Engine' = Canon(CallOp(Engine, cl).c)

\* C12: serialization: with goroutines calling Get, Put and SetSize
\* concurrently at most one call is inside the engine at any time, every
\* change of the engine is one whole call applied to the state the previous
\* call left, and the residency bound holds throughout.
Serialized ==
    /\ [](Cardinality(Inside) <= 1 /\ Len(hot) + Len(cold) <= capacity)
    /\ [][EngineStep]_engineVars

\* C12 witness: a Get has run and still holds the lock on a full cache while
\* the other goroutine waits to run a Get of its own.
SerializedWitness ==
    /\ \E t \in Threads, u \in Threads :
          /\ pc[t] = "unlock"
          /\ call[t].op = "Get"
          /\ pc[u] = "waiting"
          /\ call[u].op = "Get"
    /\ last.op = "Get"
    /\ Len(hot) + Len(cold) = capacity

\* C13: every call completes and frees the lock: under fair scheduling a
\* goroutine that has called Get, Put or SetSize returns (the loops of
\* makeSpace and of the shrink end, so the body always has a next state) and
\* a goroutine that has returned holds no lock, whichever return statement it
\* left by.  A goroutine is idle before a call and after its return, so every
\* call returns exactly when every goroutine is idle again and again.
Completes ==
    /\ [](\A t \in Threads : pc[t] = "idle" => t \notin mu)
    /\ \A t \in Threads : []<>(pc[t] = "idle")

\* C13 witness: a Get has missed and returned, the lock is free again and the
\* other goroutine, which waits with a Put that has to make space, can go on.
CompletesWitness ==
    /\ last.op = "Get"
    /\ ~last.found
    /\ mu = {}
    /\ \E t \in Threads, u \in Threads :
          /\ pc[t] = "idle"
          /\ pc[u] = "waiting"
          /\ call[u].op = "Put"
          /\ pageMap[call[u].key] = Nil
          /\ Len(hot) + Len(cold) = capacity

\* C14: hot list within hot capacity: after every call of any sequence of Put
\* and Get calls, hot.size <= hotCap.
HotWithinHotCap == Len(hot) <= hotCap

\* C15: hot capacity is at least 1 in every reachable state: for every
\* capacity, capacity 1 included, and after every SetSize and resize, to 1
\* and to a non-positive size included.
HotCapAtLeastOne == hotCap >= 1

\* The rings of engine c that hold page p.
RingsOf(c, p) == {r \in {"hot", "cold", "meta"} :
                    p \in Range(CASE r = "hot" -> c.hot [] r = "cold" -> c.cold
                                   [] r = "meta" -> c.meta)}

\* C16: admission state: Put(k, v) of a key that is not in the lookup table
\* creates an entry in state ColdResident with test = true and ref = false, in
\* the cold ring and in the lookup table; a Get(k) that follows at once leaves
\* the entry Hot or ColdResident in a resident ring, never non-resident.
AdmissionState ==
    [][ /\ (last'.op = "Put" /\ pageMap[last'.key] = Nil)
            => /\ pageMap'[last'.key] # Nil
               /\ pages'[pageMap'[last'.key]] =
                      [key |-> last'.key, value |-> last'.value,
                       state |-> stateColdResident, ref |-> FALSE, test |-> TRUE]
               /\ RingsOf(Engine', pageMap'[last'.key]) = {"cold"}
        /\ (/\ last.op = "Put" /\ last'.op = "Get" /\ last'.key = last.key
            /\ pageMap[last.key] # Nil
            /\ pages[pageMap[last.key]].state = stateColdResident
            /\ pages[pageMap[last.key]].test
            /\ ~pages[pageMap[last.key]].ref)
            => /\ pageMap'[last.key] # Nil
               /\ pages'[pageMap'[last.key]].state \in {stateHot, stateColdResident}
               /\ RingsOf(Engine', pageMap'[last.key]) \in {{"hot"}, {"cold"}}
               /\ last'.found ]_vars

\* C16 witness: a Put has admitted a new key into a full cache: its page is a
\* cold test page, the page it displaced is a ghost, and the hot ring is not
\* empty.
AdmissionStateWitness ==
    /\ last.op = "Put"
    /\ pageMap[last.key] # Nil
    /\ pages[pageMap[last.key]].state = stateColdResident
    /\ pages[pageMap[last.key]].test
    /\ ~pages[pageMap[last.key]].ref
    /\ RingsOf(Engine, pageMap[last.key]) = {"cold"}
    /\ Residents = capacity
    /\ hot # <<>>
    /\ meta # <<>>

\* The pages of key k in ring l.
PagesOf(c, l, k) == {p \in Range(l) : c.pages[p].key = k}

\* C17: ghost hit: a Get(k) or Put(k, v) for a key k whose entry was evicted
\* from the cold ring into meta and not yet trimmed removes the entry from
\* meta and admits it into hot with test = false and ref = true, hotCap
\* grows by one if the entry's test flag was set, and Get reports found =
\* false.
GhostHit ==
    [][ (last'.op \in {"Get", "Put"} /\ PagesOf(Engine, meta, last'.key) # {})
            => /\ PagesOf(Engine', meta', last'.key) = {}
               /\ \E p \in PagesOf(Engine', hot', last'.key) :
                     /\ pages'[p].state = stateHot
                     /\ ~pages'[p].test
                     /\ pages'[p].ref
               /\ (\E p \in PagesOf(Engine, meta, last'.key) : pages[p].test)
                     => hotCap' = IF hotCap < capacity - 1 THEN hotCap + 1 ELSE hotCap
               /\ last'.op = "Get" => ~last'.found ]_vars

\* C18: lookup/ring identity: each key in the lookup table maps to an entry
\* that is in exactly one of hot, cold, meta; each entry in a ring is the
\* entry the lookup table maps its key to; so no key has two entries across
\* the three rings.
LookupRingIdentity ==
    /\ \A k \in Keys :
          pageMap[k] # Nil
              => /\ Cardinality(RingsOf(Engine, pageMap[k])) = 1
                 /\ Len(SelectSeq(hot \o cold \o meta,
                                  LAMBDA p : p = pageMap[k])) = 1
    /\ \A p \in Range(hot \o cold \o meta) : pageMap[pages[p].key] = p
    /\ \A k \in Keys :
          Cardinality(PagesOf(Engine, hot \o cold \o meta, k)) <= 1

\* The resident pages of key k.
ResidentOf(c, k) == PagesOf(c, c.hot \o c.cold, k)

\* C19: entry destruction is per entry: the mapping of a key is removed only
\* when the entry it maps to is itself evicted (or trimmed from meta), never
\* when a different entry is evicted or trimmed: a call that unmaps a key
\* whose mapped entry was its only resident entry leaves no resident entry of
\* that key.
DestructionPerEntry ==
    [][ \A k \in Keys :
          (/\ pageMap[k] # Nil
           /\ ResidentOf(Engine, k) = {pageMap[k]}
           /\ pageMap'[k] = Nil)
              => ResidentOf(Engine', k) = {} ]_vars

\* C20: promotion on access: Get(k) or Put(k, v) on a ColdResident entry with
\* test = true clears test, sets ref and moves the entry from cold to hot,
\* the resident count unchanged; if hot.size then exceeds hotCap, hotCap
\* shrinks by one and coldCap grows by one, except that hotCap is not taken
\* below 1.
PromotionOnAccess ==
    [][ (/\ last'.op \in {"Get", "Put"}
         /\ pageMap[last'.key] # Nil
         /\ pages[pageMap[last'.key]].state = stateColdResident
         /\ pages[pageMap[last'.key]].test)
            => /\ pageMap'[last'.key] # Nil
               /\ pages'[pageMap'[last'.key]] =
                      [pages[pageMap[last'.key]] EXCEPT
                          !.state = stateHot, !.test = FALSE, !.ref = TRUE,
                          !.value = IF last'.op = "Put" THEN last'.value ELSE @]
               /\ RingsOf(Engine', pageMap'[last'.key]) = {"hot"}
               /\ Len(hot') = Len(hot) + 1
               /\ Len(cold') = Len(cold) - 1
               /\ meta' = meta
               /\ capacity' = capacity
               /\ hotCap' = IF Len(hot') > hotCap /\ hotCap > 1
                            THEN hotCap - 1 ELSE hotCap
               /\ coldCap' = coldCap + (hotCap - hotCap')
               /\ hotCap >= 1 => hotCap' >= 1 ]_vars

\* C20 witness: a Get has promoted a page into hot, which now holds two pages
\* at a hot capacity of two, and a cold test page is left whose promotion
\* takes hot to three pages and hotCap down to 1.
PromotionOnAccessWitness ==
    /\ last.op = "Get"
    /\ last.found
    /\ pages[pageMap[last.key]].state = stateHot
    /\ capacity = 3
    /\ hotCap = 2
    /\ Len(hot) = 2
    /\ \E k \in Keys :
          /\ pageMap[k] # Nil
          /\ pages[pageMap[k]].state = stateColdResident
          /\ pages[pageMap[k]].test
          /\ Len(GetOp(Engine, k).c.hot) = 3
          /\ GetOp(Engine, k).c.hotCap = 1
          /\ GetOp(Engine, k).c.coldCap = 2

\* C21: makeSpace guarantees room: in every reachable state, when makeSpace
\* returns, hot.size + cold.size < capacity; it never gives up on a nil
\* victim while the resident count is still >= capacity.
MakeSpaceRoom ==
    LET c == makeSpace(Engine)
    IN  Len(c.hot) + Len(c.cold) < c.capacity

\* C21 witness: a full cache of three hot pages, all referenced, and no cold
\* page: makeSpace has to clear the flags, demote a hot page and evict it
\* from cold, and leaves two resident pages.
MakeSpaceRoomWitness ==
    /\ capacity = 3
    /\ Len(hot) = 3
    /\ cold = <<>>
    /\ \A i \in 1..Len(hot) : pages[hot[i]].ref
    /\ Len(makeSpace(Engine).hot) = 2
    /\ Len(makeSpace(Engine).cold) = 0
    /\ Len(makeSpace(Engine).meta) = Len(meta) + 1

\* The pages of a ring, in ring order.
Contents(c, l) == [i \in 1..Len(l) |-> c.pages[l[i]]]

\* C22: cold-first eviction: a Put of a new key made while the cold ring is
\* not empty takes its victim, if it needs one, from the cold ring and leaves
\* the hot ring as it was; so an entry leaves hot during makeSpace only when
\* the cold ring is empty.
ColdFirst ==
    [][ (last'.op = "Put" /\ pageMap[last'.key] = Nil /\ cold # <<>>)
            => /\ Contents(Engine', hot') = Contents(Engine, hot)
               /\ Len(hot) + Len(cold) >= capacity
                     => /\ Len(cold') = Len(cold)
                        /\ Len(meta') + 1 > Len(meta)
                        /\ \E i \in 1..Len(meta') :
                              \E j \in 1..Len(cold) :
                                 pages'[meta'[i]].key = pages[cold[j]].key ]_vars

\* C22 witness: a Put of a new key into a full cache with two hot pages and
\* one cold page has replaced the cold page; the two hot pages are still
\* there, and only one of them has been referenced.
ColdFirstWitness ==
    /\ last.op = "Put"
    /\ capacity = 3
    /\ Len(hot) = 2
    /\ Len(cold) = 1
    /\ pageMap[last.key] = cold[1]
    /\ \E i \in 1..Len(meta) : pages[meta[i]].key # last.key
    /\ \E i \in 1..Len(hot) : ~pages[hot[i]].ref

\* The hot pages the hand passes before it stops, and the page it stops at:
\* the first page in hand order with ref clear, or the page under the hand
\* after a whole lap when every page is referenced.
PassedHot(c) ==
    IF \E i \in 1..Len(c.hot) : ~c.pages[c.hot[i]].ref
    THEN LET first == CHOOSE i \in 1..Len(c.hot) :
                         /\ ~c.pages[c.hot[i]].ref
                         /\ \A j \in 1..(i - 1) : c.pages[c.hot[j]].ref
         IN  [passed |-> {c.hot[j] : j \in 1..(first - 1)}, stop |-> c.hot[first]]
    ELSE [passed |-> Range(c.hot), stop |-> c.hot[1]]

\* The outcome of evictHot on engine c, as C23 states it.
EvictHotOutcomeOn(c) ==
    LET r == evictHot(c)
        v == PassedHot(c).stop
        passed == PassedHot(c).passed
        k == c.pages[v].key
    IN  /\ r.victim = v
        /\ Range(r.c.hot) = Range(c.hot) \ {v}
        /\ r.c.meta = c.meta
        /\ \A q \in Range(c.hot) \ {v} :
              r.c.pages[q] = IF q \in passed THEN [c.pages[q] EXCEPT !.ref = FALSE]
                             ELSE c.pages[q]
        /\ IF Len(c.cold) < c.coldCap
           THEN /\ Range(r.c.cold) = Range(c.cold) \cup {v}
                /\ Len(r.c.cold) = Len(c.cold) + 1
                /\ r.c.pages[v] = [c.pages[v] EXCEPT !.state = stateColdResident,
                                                     !.test = TRUE, !.ref = FALSE]
                /\ r.c.pageMap = c.pageMap
                /\ r.c.hotCap = IF c.hotCap < c.capacity - 1 THEN c.hotCap + 1
                                ELSE c.hotCap
                /\ r.c.coldCap = c.coldCap - (r.c.hotCap - c.hotCap)
           ELSE /\ r.c.cold = c.cold
                /\ r.c.pageMap = mapDelete(c.pageMap, k)
                /\ r.c.hotCap = c.hotCap
                /\ r.c.coldCap = c.coldCap

\* C23: evictHot outcome: the first hot entry under the hand found with ref
\* clear is removed from hot; if cold.size < coldCap it is demoted into cold
\* with test set and ref clear, the lookup table is left as it is, and hotCap
\* grows by one up to capacity - 1; otherwise its key is removed from the
\* lookup table.  Entries passed with ref set only have ref cleared and stay
\* in hot.  Checked for every reachable engine with a hot page and every
\* choice of referenced hot pages.
EvictHotOutcome ==
    hot # <<>> => \A S \in SUBSET Range(hot) : EvictHotOutcomeOn(WithRefs(Engine, S))

\* C23 witness: a full cache of three hot pages, the two the hand meets first
\* referenced and the third not: evictHot clears the first two, demotes the
\* third on its third step and hotCap grows from 1 to 2.
EvictHotOutcomeWitness ==
    /\ capacity = 3
    /\ hotCap = 1
    /\ Len(hot) = 3
    /\ cold = <<>>
    /\ pages[hot[1]].ref
    /\ pages[hot[2]].ref
    /\ ~pages[hot[3]].ref
    /\ evictHot(Engine).victim = hot[3]
    /\ evictHot(Engine).steps = 3
    /\ evictHot(Engine).c.hotCap = 2
    /\ evictHot(Engine).c.cold = <<hot[3]>>
    /\ ~evictHot(Engine).c.pages[hot[1]].ref

\* C24: metadata bound: after New and after every Get, Put, SetSize and
\* Resize, in any sequence of calls, meta.size <= metaCap and
\* metaCap = capacity, also right after a shrinking resize.
MetaBound ==
    /\ Len(meta) <= metaCap
    /\ metaCap = capacity

\* C24 witness: a resize from three residents down to capacity 1 that left
\* one ghost: the two evictions of the resize each made a ghost, and the
\* metadata was trimmed to the new capacity.
MetaBoundWitness ==
    /\ Resized
    /\ last.before = 3
    /\ last.size = 1
    /\ capacity = 1
    /\ metaCap = 1
    /\ Len(meta) = 1

\* C25: metadata is trimmed FIFO: whenever trimMeta removes a page because
\* meta.size > metaCap, the removed page is the one inserted into meta
\* earliest among the pages in meta at that moment (the pages the trim
\* leaves included).
FifoTrim ==
    \A x \in metaLog.removed : \A y \in metaLog.kept : x < y

\* C26: resize rescales the split: after a resize to n from capacity c and
\* hotCap h, with n' = max(n, 1), hotCap is n' * (1000 * h / c) / 1000 in
\* integer arithmetic, made 1 when it is 0 and then n' - 1 when it is n' or
\* more; coldCap = n' - hotCap and metaCap = n'.  Stated for SetSize, the
\* resize of the facade, and for the resize of the engine.
RescaleSplit ==
    [][ Resized'
          => LET size == Max(last'.size, 1)
                 scaled == (size * ((1000 * hotCap) \div capacity)) \div 1000
                 atLeastOne == IF scaled = 0 THEN 1 ELSE scaled
                 newHotCap == IF atLeastOne >= size THEN size - 1 ELSE atLeastOne
             IN  /\ hotCap' = newHotCap
                 /\ coldCap' = size - newHotCap
                 /\ metaCap' = size ]_vars

\* C27: non-resident entries hold no payload: a page evicted from cold with
\* test set has its value cleared, becomes stateCold and is inserted into
\* meta; in every reachable state every page in meta has state stateCold and
\* the zero value.
NoPayload ==
    /\ \A i \in 1..Len(meta) : /\ pages[meta[i]].state = stateCold
                                /\ pages[meta[i]].value = zero
    /\ cold # <<>> =>
          LET r == evictCold(Engine)
          IN  /\ r.victim # Nil
              /\ pages[r.victim].test =>
                    /\ r.victim \in Range(r.c.meta)
                    /\ r.victim \notin Range(r.c.cold)
                    /\ r.c.pages[r.victim].value = zero
                    /\ r.c.pages[r.victim].state = stateCold

\* C27 witness: a Put into a full cache has just turned a cold test page
\* into a ghost (the key it evicted is in meta and no longer resident), and
\* the page now under the cold hand holds the value y and goes the same way.
NoPayloadWitness ==
    /\ last.op = "Put"
    /\ capacity = 2
    /\ Len(hot) + Len(cold) = 2
    /\ Len(meta) = 2
    /\ \E i \in 1..Len(meta) : /\ pages[meta[i]].value = zero
                                /\ ResidentOf(Engine, pages[meta[i]].key) = {}
    /\ cold # <<>>
    /\ pages[head(cold)].value = "y"
    /\ pages[head(cold)].test
    /\ evictCold(Engine).victim = head(cold)
    /\ evictCold(Engine).c.pages[head(cold)].value = zero
    /\ head(cold) \in Range(evictCold(Engine).c.meta)

\* C28: flag invariant of the rings: in every reachable state every page in
\* cold has test set and ref clear, and every page in hot has test clear and
\* state stateHot; so evictCold removes the page under the hand in its first
\* step and never takes its promote-on-ref branch (hot is left as it is).
FlagInvariant ==
    /\ \A i \in 1..Len(cold) : /\ pages[cold[i]].test
                                /\ ~pages[cold[i]].ref
    /\ \A i \in 1..Len(hot) : /\ ~pages[hot[i]].test
                               /\ pages[hot[i]].state = stateHot
    /\ cold # <<>> =>
          /\ evictCold(Engine).victim = head(cold)
          /\ evictCold(Engine).steps = 1
          /\ evictCold(Engine).c.hot = hot

\* C28 witness: a full cache of capacity 3 after a Get that hit: the page of
\* the key is in hot, referenced, with test clear; two test pages are in
\* cold, and evictCold takes the one under the hand in one step.
FlagInvariantWitness ==
    /\ last.op = "Get"
    /\ last.found
    /\ capacity = 3
    /\ Len(hot) = 1
    /\ Len(cold) = 2
    /\ pageMap[last.key] = hot[1]
    /\ pages[hot[1]].ref
    /\ ~pages[hot[1]].test
    /\ pages[cold[1]].test
    /\ pages[cold[2]].test
    /\ evictCold(Engine).steps = 1
    /\ evictCold(Engine).c.cold = <<cold[2]>>

\* C29: no stale or foreign value: in any sequence of calls, whenever Get(k)
\* returns found = true the value returned is the value of the most recent
\* Put(k, .) before that Get; a Get for a key that was never Put misses.
NoStaleValue ==
    (last.op = "Get" /\ last.found)
        => /\ written[last.key] # "none"
           /\ last.value = written[last.key]

\* C29 witness: a Get that hit and returned y, the value last put under its
\* key, in a cache where another key was put and has since been evicted and
\* a third key was never put.
NoStaleValueWitness ==
    /\ last.op = "Get"
    /\ last.found
    /\ last.value = "y"
    /\ written[last.key] = "y"
    /\ \E k \in Keys \ {last.key} : /\ written[k] = "x"
                                      /\ pageMap[k] = Nil
    /\ \E k \in Keys \ {last.key} : written[k] = "none"

====
